---- MODULE Spec2Model ----
(***************************************************************************)
(* Celebium browser session manager (python-server/app/services/           *)
(* selenium_manager.py).  The FastAPI endpoints are plain `def` handlers,  *)
(* so each request runs on a thread of the server's pool and the methods   *)
(* of the single SeleniumManager interleave at their blocking calls.  An   *)
(* `in` test followed directly by a subscript or `del` on the same dict    *)
(* has no call between the two and is one step here.  A run of statements  *)
(* that touches only the caller's own locals and the browser it has just   *)
(* launched (nothing another thread can reach before the handle is stored) *)
(* is one step as well; every access to running_profiles or to a browser   *)
(* another thread can reach is a step of its own.                          *)
(***************************************************************************)
EXTENDS Integers, Sequences, FiniteSets, TLC

\* ------------------------------------------------------------------ bounds
\* start_profile calls made in the statement-by-statement specifications
MaxSessions == 2
\* cdp_click / cdp_type calls made on one session there
MaxInteractions == 1
\* slots for the browser processes that the registry or a call in progress
\* refers to at one time
MaxProcs == 2

\* ------------------------------------------------------ domains and inputs
Profiles == {"p1", "p2"}
\* the request threads of the pool, in the order requests are handed out
Pool == <<"w1", "w2">>
Workers == {Pool[i] : i \in 1..Len(Pool)}
Main == "main"
Threads == Workers \cup {Main}

\* an optional value: None is <<>>, a present value x is <<x>>
None == <<>>
Some(x) == <<x>>
Val(o) == o[1]

\* a thread slot that holds nothing
Idle == "-"

DefaultDebugPort == 9222

\* random.randint(1, 1000)
NoiseSeedMin == 1
NoiseSeedMax == 1000

\* 'accuracy': 100
GeolocationAccuracy == 100

\* text is a tuple of one-character strings
Digits == <<"0", "1", "2", "3", "4", "5", "6", "7", "8", "9">>
Localhost == <<"l", "o", "c", "a", "l", "h", "o", "s", "t">>

\* driver.service.port / capabilities as the launcher may report them:
\* service_port is None when the attribute is missing; debuggerAddress is
\* the address already split on ':' (<<>> when the key is absent, one part
\* when it holds no ':'); caps_ok = FALSE when reading the capabilities
\* raises.
Drivers ==
    { [service_port |-> Some(9515), caps_ok |-> TRUE,
       debuggerAddress |-> <<Localhost, <<"9", "3", "3", "3">> >>],
      [service_port |-> None, caps_ok |-> TRUE,
       debuggerAddress |-> <<Localhost, <<"9", "3", "3", "3">> >>],
      [service_port |-> None, caps_ok |-> TRUE,
       debuggerAddress |-> <<Localhost, <<"9", "x">> >>],
      [service_port |-> None, caps_ok |-> TRUE,
       debuggerAddress |-> <<Localhost, <<>> >>],
      [service_port |-> None, caps_ok |-> TRUE,
       debuggerAddress |-> <<Localhost>>],
      [service_port |-> None, caps_ok |-> TRUE,  debuggerAddress |-> <<>>],
      [service_port |-> None, caps_ok |-> FALSE, debuggerAddress |-> <<>>] }

\* the driver shape of the browsers the session threads launch; the
\* resolver is checked against every shape of Drivers on its own
SessionDrivers == {d \in Drivers : d.service_port # None}

\* outcomes of GET http://127.0.0.1:<port>/json/version
VersionReplies == {"timeout", "refused", "malformed", "no_field", "ok"}

\* screen_resolution split on 'x' (None when unset)
Resolutions == {None, Some(<<"1920", "1080">>), Some(<<"1920">>), Some(<<"1", "2", "3">>)}

\* ------------------------------------------ profile records and arguments
\* proxy_string: unset or a proxy URL
ProxyStrings == {None, Some("socks5://host:1080")}

\* webrtc_mode: 'altered' (default), 'disabled', 'real'
WebrtcModes == {"altered", "disabled"}

UserAgents == {None, Some("Mozilla/5.0")}

Timezones == {None, Some("America/New_York")}

\* geolocation texts: unset, "1,2", "-1.5,2", "12", "1,x", "1,2,3"
Geolocations ==
    {None,
     Some(<<"1", ",", "2">>),
     Some(<<"-", "1", ".", "5", ",", "2">>),
     Some(<<"1", "2">>),
     Some(<<"1", ",", "x">>),
     Some(<<"1", ",", "2", ",", "3">>)}

ExtraFlags == {<<>>, << <<"--mute-audio">> >>,
               << <<"--no-first-run">>, <<"--mute-audio">> >>}

StartPages == {<<>>, <<"https://a.example">>,
               <<"https://a.example", "https://b.example">>}

DefaultProfile ==
    [id |-> "p1", screen_resolution |-> Some(<<"1920", "1080">>),
     proxy_string |-> None, webrtc_mode |-> "altered", user_agent |-> None,
     timezone |-> None, geolocation |-> None, adblock_enabled |-> FALSE]

\* profiles that differ in what _build_chrome_options reads
OptionProfiles ==
    {[DefaultProfile EXCEPT !.screen_resolution = r, !.proxy_string = p,
                            !.webrtc_mode = w] :
        r \in Resolutions, p \in ProxyStrings, w \in WebrtcModes}

\* profiles that differ in what _apply_fingerprint_overrides reads
InjectProfiles ==
    {[DefaultProfile EXCEPT !.user_agent = u, !.timezone = z, !.geolocation = g,
                            !.adblock_enabled = a] :
        u \in UserAgents, z \in Timezones, g \in Geolocations, a \in BOOLEAN}

\* the arguments of the start_profile calls of the statement-by-statement
\* specification
StartInputs ==
    [profile : OptionProfiles, chrome_flags : ExtraFlags, start_pages : {<<>>}]
    \cup [profile : InjectProfiles, chrome_flags : {<<>>}, start_pages : {<<>>}]
    \cup [profile : {DefaultProfile}, chrome_flags : {<<>>}, start_pages : StartPages]

\* ------------------------------------------------------------------- state
VARIABLES
    running_profiles,  \* SeleniumManager.running_profiles, in insertion order
    procs,             \* browser processes the program can still reach, by slot
    phase,             \* "serving" | "shutdown"
    pc, op, arg,       \* per thread: position, method, profile_id argument
    sb,                \* per thread: process of the SB context in hand
    debug_port, websocket_url, pid,   \* per thread: locals of start/stop
    result,            \* per thread: outcome of the call
    path,              \* per thread: branch stop_profile took
    profile_ids,       \* per thread: close_all's snapshot still to stop
    it,                \* per thread: get_stats' iterator over the registry
    total_memory,      \* per thread: get_stats' sum, one unit per process read
    stats,             \* per thread: the dict get_stats returned
    \* one start_profile call after another on one thread, statement by
    \* statement
    profile,           \* the profile record passed to start_profile
    chrome_flags,      \* the chrome_flags argument
    start_pages,       \* the start_pages argument
    step,              \* the statement the call is at
    chrome_options,    \* the list _build_chrome_options returned
    resolved,          \* debug_port, websocket_url and pid of lines 88-96
    noise_seed,        \* the injector's local noise_seed
    draws,             \* calls of random.randint made by this start
    pages_left,        \* start pages still to open
    trace,             \* the calls this session has made, in order
    start_result,      \* what the last start_profile call came to
    sessions,          \* start_profile calls made so far
    interactions,      \* cdp_click / cdp_type calls made on this session
    endpoint,          \* thread -> the API endpoint it is serving
    status,            \* profile id -> the status column of its database row
    response           \* thread -> the response its endpoint has returned

\* the state the session methods work on
session == <<running_profiles, procs, phase, pc, op, arg, sb,
             debug_port, websocket_url, pid, result, path, profile_ids>>

\* the state only get_stats works on
statistics == <<it, total_memory, stats>>

\* the state of the statement-by-statement start
sequence == <<profile, chrome_flags, start_pages, step, chrome_options, resolved,
              noise_seed, draws, pages_left, trace, start_result, sessions, interactions>>

\* the state of the API endpoints in front of the manager
api == <<endpoint, status, response>>

vars == <<session, statistics, sequence, api>>

shared == <<running_profiles, procs, phase>>

locals == <<sb, debug_port, websocket_url, pid>>

\* ------------------------------------------------- the registry dictionary
Has(reg, id) == \E i \in 1..Len(reg) : reg[i].id = id

Get(reg, id) == reg[CHOOSE i \in 1..Len(reg) : reg[i].id = id]

Put(reg, h) ==
    IF Has(reg, h.id)
    THEN [i \in 1..Len(reg) |-> IF reg[i].id = h.id THEN h ELSE reg[i]]
    ELSE Append(reg, h)

Del(reg, id) == SelectSeq(reg, LAMBDA e : e.id # id)

Keys(reg) == [i \in 1..Len(reg) |-> reg[i].id]

is_running(id) == Has(running_profiles, id)

\* ------------------------------------------------------- endpoint resolver
IsDigit(c) == \E d \in 1..Len(Digits) : Digits[d] = c

DigitValue(c) == (CHOOSE d \in 1..Len(Digits) : Digits[d] = c) - 1

\* int(text): None stands for the ValueError on an empty or non-numeric text
RECURSIVE DecimalValue(_)
DecimalValue(txt) ==
    IF txt = <<>> THEN 0
    ELSE 10 * DecimalValue(SubSeq(txt, 1, Len(txt) - 1)) + DigitValue(txt[Len(txt)])

int(txt) ==
    IF txt # <<>> /\ \A i \in 1..Len(txt) : IsDigit(txt[i])
    THEN Some(DecimalValue(txt))
    ELSE None

\* _get_debug_port reading the capabilities before the service: the port of
\* the debugger address wins over the launcher's port
_get_debug_port_AddressFirst(driver) ==
    IF driver.caps_ok /\ Len(driver.debuggerAddress) >= 2
       /\ int(driver.debuggerAddress[2]) # None
    THEN Val(int(driver.debuggerAddress[2]))
    ELSE IF driver.service_port # None THEN Val(driver.service_port)
    ELSE DefaultDebugPort

_get_debug_port(driver) ==
    IF driver.service_port # None THEN Val(driver.service_port)
    ELSE IF ~driver.caps_ok THEN DefaultDebugPort
    ELSE IF Len(driver.debuggerAddress) < 2 THEN DefaultDebugPort
    ELSE IF int(driver.debuggerAddress[2]) # None
         THEN Val(int(driver.debuggerAddress[2]))
    ELSE DefaultDebugPort

\* a URL is the tuple of its parts; the empty string is <<>>
_get_websocket_url(reply, port) ==
    CASE reply = "ok"       -> <<"ws://127.0.0.1:", port, "/devtools/browser/", "uuid">>
      [] reply = "no_field" -> <<>>
      [] OTHER              -> <<"ws://127.0.0.1:", port, "/devtools/browser">>

\* a process that is gone keeps nothing but the fact that it is gone
Exited == [profile |-> Idle, alive |-> FALSE, mode |-> "normal"]

\* ------------------------------------------------------------------- Init
Init ==
    /\ running_profiles = <<>>
    /\ procs = [i \in 1..MaxProcs |-> Exited]
    /\ phase = "serving"
    /\ pc = [t \in Threads |-> "idle"]
    /\ op = [t \in Threads |-> Idle]
    /\ arg = [t \in Threads |-> Idle]
    /\ sb = [t \in Threads |-> None]
    /\ debug_port = [t \in Threads |-> None]
    /\ websocket_url = [t \in Threads |-> None]
    /\ pid = [t \in Threads |-> None]
    /\ result = [t \in Threads |-> Idle]
    /\ path = [t \in Threads |-> Idle]
    /\ profile_ids = [t \in Threads |-> <<>>]
    /\ it = [t \in Threads |-> None]
    /\ total_memory = [t \in Threads |-> 0]
    /\ stats = [t \in Threads |-> None]
    /\ profile = DefaultProfile
    /\ chrome_flags = <<>>
    /\ start_pages = <<>>
    /\ step = "idle"
    /\ chrome_options = None
    /\ resolved = None
    /\ noise_seed = None
    /\ draws = 0
    /\ pages_left = <<>>
    /\ trace = <<>>
    /\ start_result = Idle
    /\ sessions = 0
    /\ interactions = 0
    /\ endpoint = [t \in Threads |-> Idle]
    /\ status = [id \in Profiles |-> "available"]
    /\ response = [t \in Threads |-> Idle]

\* ---------------------------------------------------------------- helpers
Goto(t, l) == pc' = [pc EXCEPT ![t] = l]

\* the slots the registry reg or the locals sbs of some thread refer to
Refs(reg, sbs) ==
    {reg[k].sb : k \in 1..Len(reg)} \cup
    {Val(sbs[u]) : u \in {v \in Threads : sbs[v] # None}}

\* a browser no handle and no call refers to any more is out of the
\* program's reach, whatever becomes of it; its slot is given up
Sweep(p, reg, sbs) ==
    [i \in 1..MaxProcs |-> IF i \in Refs(reg, sbs) THEN p[i] ELSE Exited]

FreeSlots == (1..MaxProcs) \ Refs(running_profiles, sb)

NextSlot == CHOOSE i \in FreeSlots : \A j \in FreeSlots : i <= j

\* the call ends: a return value or exception reaches the caller; inside
\* close_all the outcome of stop_profile is dropped and the loop goes on.
\* held is what the frame of a raised exception still refers to.
Finish(t, r, held) ==
    /\ result' = [result EXCEPT ![t] = r]
    /\ sb' = [sb EXCEPT ![t] = held]
    /\ debug_port' = [debug_port EXCEPT ![t] = None]
    /\ websocket_url' = [websocket_url EXCEPT ![t] = None]
    /\ pid' = [pid EXCEPT ![t] = None]
    /\ IF op[t] = "close_all" THEN Goto(t, "ca_loop") ELSE Goto(t, "done")

Methods == {"start_profile", "stop_profile", "cdp_click", "cdp_type"}

Entry(m) ==
    CASE m = "start_profile" -> "s_check"
      [] m = "stop_profile"  -> "p_check"
      [] OTHER               -> "c_lookup"

\* ---------------------------------------------------------- request entry
\* the first idle thread of the pool
FirstIdle == Pool[CHOOSE i \in 1..Len(Pool) :
                    /\ pc[Pool[i]] = "idle"
                    /\ \A j \in 1..(i - 1) : pc[Pool[j]] # "idle"]

\* a request is handed to an idle thread, which enters a manager method
Call(t) ==
    /\ t \in Workers
    /\ phase = "serving"
    /\ pc[t] = "idle"
    /\ t = FirstIdle
    /\ \E m \in Methods, id \in Profiles :
        /\ op' = [op EXCEPT ![t] = m]
        /\ arg' = [arg EXCEPT ![t] = id]
        /\ Goto(t, Entry(m))
    /\ UNCHANGED <<shared, locals, result, path, profile_ids>>

\* the response is sent and the thread goes back to the pool
Return(t) ==
    /\ t \in Workers
    /\ pc[t] = "done"
    /\ Goto(t, "idle")
    /\ op' = [op EXCEPT ![t] = Idle]
    /\ arg' = [arg EXCEPT ![t] = Idle]
    /\ sb' = [sb EXCEPT ![t] = None]
    /\ result' = [result EXCEPT ![t] = Idle]
    /\ path' = [path EXCEPT ![t] = Idle]
    /\ procs' = Sweep(procs, running_profiles, sb')
    /\ UNCHANGED <<running_profiles, phase, debug_port, websocket_url, pid, profile_ids>>

\* ------------------------------------------------------- start_profile
\* StartCheck taking a start on a running profile as a restart
StartCheck_Restart(t) ==
    /\ pc[t] = "s_check"
    /\ running_profiles' = Del(running_profiles, arg[t])
    /\ procs' = Sweep(procs, running_profiles', sb)
    /\ Goto(t, "s_launch")
    /\ UNCHANGED <<phase, locals, result, op, arg, path, profile_ids>>

\* lines 54-56: the membership test
StartCheck(t) ==
    /\ pc[t] = "s_check"
    /\ IF is_running(arg[t])
       THEN Finish(t, "AlreadyRunning", None)
       ELSE Goto(t, "s_launch") /\ UNCHANGED <<locals, result>>
    /\ UNCHANGED <<shared, op, arg, path, profile_ids>>

\* line 199: `width, height = screen_resolution.split('x')` unpacks exactly
\* two parts and raises ValueError otherwise
ResolutionOk(res) == res = None \/ Len(Val(res)) = 2

NewProc(id) == [profile |-> id, alive |-> TRUE, mode |-> "normal"]

\* lines 246-396: activate_cdp_mode, the CDP commands, reconnect; any
\* exception leaves the try block at once and is only printed, so a command
\* that raises after the mode switch skips sb.reconnect()
InjectOutcomes == {"ok", "activate_raised", "command_raised", "reconnect_raised"}

_apply_fingerprint_overrides(outcome) ==
    IF outcome \in {"command_raised", "reconnect_raised"} THEN "cdp" ELSE "normal"

\* what the environment does to one run of lines 58-107
LaunchInputs ==
    [mkdir_ok : BOOLEAN, res : Resolutions, boot_ok : BOOLEAN, blank_ok : BOOLEAN,
     driver : SessionDrivers, reply : VersionReplies, has_pid : BOOLEAN,
     inject : InjectOutcomes, pages_ok : BOOLEAN]

\* lines 58-67 run outside the try block: os.makedirs, _build_chrome_options
PrepareOk(in) == in.mkdir_ok /\ ResolutionOk(in.res)

\* lines 71-81: SB(...).__enter__() boots the browser
Booted(in) == PrepareOk(in) /\ in.boot_ok

\* lines 85-107: about:blank, resolver, pid, injection, start pages
Launched(in) == Booted(in) /\ in.blank_ok /\ in.pages_ok

\* the mode lines 85-107 leave the browser in, whether they return or raise
ModeAfterLaunch(in) ==
    IF in.blank_ok THEN _apply_fingerprint_overrides(in.inject) ELSE "normal"

\* what one run of lines 58-107 comes to: the mode of the browser if one was
\* booted, and the values for the handle if the run got as far as line 109
LaunchResult(in) ==
    [mode |-> IF Booted(in) THEN Some(ModeAfterLaunch(in)) ELSE None,
     locals |-> IF Launched(in)
                THEN Some([debug_port |-> _get_debug_port(in.driver),
                           websocket_url |->
                               _get_websocket_url(in.reply, _get_debug_port(in.driver)),
                           has_pid |-> in.has_pid])
                ELSE None]

LaunchResults == {LaunchResult(in) : in \in LaunchInputs}

\* the launches of the concurrent specification: every failure point and
\* every injection start_result, with the resolver reporting a pid and a
\* websocket URL.  The URL is never read back by the manager, and a handle
\* without pid takes stop_profile through the same effects as a failed
\* terminate; the serial specification runs every result of LaunchResults.
CoreLaunchResults ==
    {LaunchResult(in) : in \in {i \in LaunchInputs : i.has_pid /\ i.reply = "ok"}}

\* StartLaunch with the handle stored as soon as the browser is up, before
\* the start pages are opened
StartLaunch_StoreEarly(t, R) ==
    /\ pc[t] = "s_launch"
    /\ \E r \in R :
        IF r.mode = None
        THEN /\ Finish(t, "LaunchFailure", None)
             /\ UNCHANGED <<procs, running_profiles>>
        ELSE /\ FreeSlots # {}
             /\ procs' = [procs EXCEPT ![NextSlot] =
                             [NewProc(arg[t]) EXCEPT !.mode = Val(r.mode)]]
             /\ running_profiles' = Put(running_profiles,
                    [id |-> arg[t], sb |-> NextSlot, pid |-> Some(NextSlot),
                     debug_port |-> DefaultDebugPort,
                     websocket_url |-> _get_websocket_url("ok", DefaultDebugPort)])
             /\ IF r.locals = None
                THEN Finish(t, "LaunchFailure", Some(NextSlot))
                ELSE /\ sb' = [sb EXCEPT ![t] = Some(NextSlot)]
                     /\ debug_port' = [debug_port EXCEPT ![t] =
                            Some(Val(r.locals).debug_port)]
                     /\ websocket_url' = [websocket_url EXCEPT ![t] =
                            Some(Val(r.locals).websocket_url)]
                     /\ pid' = [pid EXCEPT ![t] =
                            IF Val(r.locals).has_pid THEN Some(NextSlot) ELSE None]
                     /\ Goto(t, "s_register")
                     /\ UNCHANGED result
    /\ UNCHANGED <<phase, op, arg, path, profile_ids>>

\* lines 58-107 and 126-128: everything between the membership test and the
\* store; the except clause only prints and re-raises, the browser it has
\* booted stays as it is
StartLaunch(t, R) ==
    /\ pc[t] = "s_launch"
    /\ \E r \in R :
        IF r.mode = None
        THEN /\ Finish(t, "LaunchFailure", None)
             /\ UNCHANGED procs
        ELSE /\ FreeSlots # {}
             /\ procs' = [procs EXCEPT ![NextSlot] =
                             [NewProc(arg[t]) EXCEPT !.mode = Val(r.mode)]]
             /\ IF r.locals = None
                THEN Finish(t, "LaunchFailure", Some(NextSlot))
                ELSE /\ sb' = [sb EXCEPT ![t] = Some(NextSlot)]
                     /\ debug_port' = [debug_port EXCEPT ![t] =
                            Some(Val(r.locals).debug_port)]
                     /\ websocket_url' = [websocket_url EXCEPT ![t] =
                            Some(Val(r.locals).websocket_url)]
                     /\ pid' = [pid EXCEPT ![t] =
                            IF Val(r.locals).has_pid THEN Some(NextSlot) ELSE None]
                     /\ Goto(t, "s_register")
                     /\ UNCHANGED result
    /\ UNCHANGED <<running_profiles, phase, op, arg, path, profile_ids>>

Handle(t) ==
    [id |-> arg[t], sb |-> Val(sb[t]), pid |-> pid[t],
     debug_port |-> Val(debug_port[t]), websocket_url |-> Val(websocket_url[t])]

\* StartRegister waiting for every other start that has launched
StartRegister_Serialized(t) ==
    /\ pc[t] = "s_register"
    /\ \A u \in Threads \ {t} : pc[u] # "s_register"
    /\ running_profiles' = Put(running_profiles, Handle(t))
    /\ Finish(t, "ok", None)
    /\ procs' = Sweep(procs, running_profiles', sb')
    /\ UNCHANGED <<phase, op, arg, path, profile_ids>>

\* lines 109-124: store the handle, return the result dict
StartRegister(t) ==
    /\ pc[t] = "s_register"
    /\ running_profiles' = Put(running_profiles, Handle(t))
    /\ Finish(t, "ok", None)
    /\ procs' = Sweep(procs, running_profiles', sb')
    /\ UNCHANGED <<phase, op, arg, path, profile_ids>>

\* -------------------------------------------------------- stop_profile
\* StopCheck returning quietly when the profile is absent
StopCheck_Silent(t) ==
    /\ pc[t] = "p_check"
    /\ IF ~is_running(arg[t])
       THEN Finish(t, "ok", None)
       ELSE /\ sb' = [sb EXCEPT ![t] = Some(Get(running_profiles, arg[t]).sb)]
            /\ pid' = [pid EXCEPT ![t] = Get(running_profiles, arg[t]).pid]
            /\ Goto(t, "p_close")
            /\ UNCHANGED <<debug_port, websocket_url, result>>
    /\ UNCHANGED <<shared, op, arg, path, profile_ids>>

\* lines 140-143: raise when absent, otherwise fetch the stored dict
StopCheck(t) ==
    /\ pc[t] = "p_check"
    /\ IF ~is_running(arg[t])
       THEN Finish(t, "NotRunning", None)
       ELSE /\ sb' = [sb EXCEPT ![t] = Some(Get(running_profiles, arg[t]).sb)]
            /\ pid' = [pid EXCEPT ![t] = Get(running_profiles, arg[t]).pid]
            /\ Goto(t, "p_close")
            /\ UNCHANGED <<debug_port, websocket_url, result>>
    /\ UNCHANGED <<shared, op, arg, path, profile_ids>>

\* psutil.Process(pid).terminate(), wait(timeout=5)
KillOutcomes == {"terminated", "lookup_raised", "wait_timeout"}

\* what the environment does to one run of lines 145-161; when __exit__
\* raises the browser may or may not have gone down with it
CloseInputs == [exit_ok : BOOLEAN, gone : BOOLEAN, kill : KillOutcomes]

\* the branch of lines 145-161 taken
ClosePath(in, p) ==
    IF in.exit_ok THEN "graceful"
    ELSE IF p = None THEN "no_pid"
    ELSE IF in.kill = "terminated" THEN "forced"
    ELSE "forced_failed"

\* the browser of the handle after lines 145-161
ProcAfterClose(in, p, proc) ==
    IF in.exit_ok \/ in.gone THEN Exited
    ELSE IF p # None /\ in.kill = "terminated" THEN Exited
    ELSE proc

\* StopClose without the inner `except: pass`: a failed terminate leaves
\* through the finally clause as an error of stop_profile
StopClose_KillRaises(t) ==
    /\ pc[t] = "p_close"
    /\ \E in \in CloseInputs :
        /\ path' = [path EXCEPT ![t] = ClosePath(in, pid[t])]
        /\ IF ClosePath(in, pid[t]) = "forced_failed"
           THEN /\ Finish(t, "Error", None)
                /\ running_profiles' = Del(running_profiles, arg[t])
           ELSE /\ sb' = [sb EXCEPT ![t] = None]
                /\ pid' = [pid EXCEPT ![t] = None]
                /\ Goto(t, "p_finally")
                /\ UNCHANGED <<running_profiles, debug_port, websocket_url, result>>
        /\ procs' = Sweep([procs EXCEPT ![Val(sb[t])] = ProcAfterClose(in, pid[t], @)],
                          running_profiles', sb')
    /\ UNCHANGED <<phase, op, arg, profile_ids>>

\* StopClose with process.wait() given no timeout: a process that does not
\* exit on terminate keeps the thread in the wait
StopClose_WaitsForever(t) ==
    /\ pc[t] = "p_close"
    /\ \E in \in CloseInputs :
        /\ path' = [path EXCEPT ![t] = ClosePath(in, pid[t])]
        /\ IF ~in.exit_ok /\ pid[t] # None /\ in.kill = "wait_timeout"
           THEN /\ Goto(t, "p_wait")
                /\ UNCHANGED <<sb, pid, procs>>
           ELSE /\ sb' = [sb EXCEPT ![t] = None]
                /\ pid' = [pid EXCEPT ![t] = None]
                /\ procs' = Sweep([procs EXCEPT ![Val(sb[t])] =
                                       ProcAfterClose(in, pid[t], @)],
                                  running_profiles, sb')
                /\ Goto(t, "p_finally")
    /\ UNCHANGED <<running_profiles, phase, op, arg, debug_port, websocket_url,
                   result, profile_ids>>

\* lines 145-161: sb_context.__exit__(None, None, None); on an exception
\* the process of the recorded pid is terminated, the bare except swallowing
\* NoSuchProcess, AccessDenied and TimeoutExpired
StopClose(t) ==
    /\ pc[t] = "p_close"
    /\ sb' = [sb EXCEPT ![t] = None]
    /\ pid' = [pid EXCEPT ![t] = None]
    /\ \E in \in CloseInputs :
        /\ path' = [path EXCEPT ![t] = ClosePath(in, pid[t])]
        /\ procs' = Sweep([procs EXCEPT ![Val(sb[t])] = ProcAfterClose(in, pid[t], @)],
                          running_profiles, sb')
    /\ Goto(t, "p_finally")
    /\ UNCHANGED <<running_profiles, phase, op, arg, debug_port, websocket_url,
                   result, profile_ids>>

\* StopFinally with the removal done only after a close that went through
StopFinally_OnlyAfterGraceful(t) ==
    /\ pc[t] = "p_finally"
    /\ running_profiles' = IF path[t] = "graceful"
                           THEN Del(running_profiles, arg[t])
                           ELSE running_profiles
    /\ Finish(t, "ok", None)
    /\ procs' = Sweep(procs, running_profiles', sb')
    /\ UNCHANGED <<phase, op, arg, path, profile_ids>>

\* lines 163-166: the finally clause
StopFinally(t) ==
    /\ pc[t] = "p_finally"
    /\ running_profiles' = Del(running_profiles, arg[t])
    /\ Finish(t, "ok", None)
    /\ procs' = Sweep(procs, running_profiles', sb')
    /\ UNCHANGED <<phase, op, arg, path, profile_ids>>

\* ------------------------------------------------------------ close_all
\* main.py 58-66: the shutdown event runs once the server has stopped
\* taking requests and those in flight have been answered; line 170 takes
\* the snapshot of the keys
Shutdown(t) ==
    /\ t = Main
    /\ phase = "serving"
    /\ \A w \in Workers : pc[w] = "idle"
    /\ phase' = "shutdown"
    /\ op' = [op EXCEPT ![t] = "close_all"]
    /\ profile_ids' = [profile_ids EXCEPT ![t] = Keys(running_profiles)]
    /\ Goto(t, "ca_loop")
    /\ UNCHANGED <<running_profiles, procs, arg, locals, result, path>>

\* CloseAllNext that does not go on after a failure: the
\* loop gives up after a session whose close did not go through
CloseAllNext_StopsAtFailure(t) ==
    /\ pc[t] = "ca_loop"
    /\ IF profile_ids[t] = <<>> \/ path[t] \in {"forced_failed", "no_pid"}
       THEN /\ Goto(t, "done")
            /\ arg' = [arg EXCEPT ![t] = Idle]
            /\ UNCHANGED profile_ids
       ELSE /\ arg' = [arg EXCEPT ![t] = Head(profile_ids[t])]
            /\ profile_ids' = [profile_ids EXCEPT ![t] = Tail(profile_ids[t])]
            /\ Goto(t, "p_check")
    /\ UNCHANGED <<shared, op, locals, result, path>>

\* lines 172-176: the loop over the snapshot
CloseAllNext(t) ==
    /\ pc[t] = "ca_loop"
    /\ IF profile_ids[t] = <<>>
       THEN /\ Goto(t, "done")
            /\ arg' = [arg EXCEPT ![t] = Idle]
            /\ UNCHANGED profile_ids
       ELSE /\ arg' = [arg EXCEPT ![t] = Head(profile_ids[t])]
            /\ profile_ids' = [profile_ids EXCEPT ![t] = Tail(profile_ids[t])]
            /\ Goto(t, "p_check")
    /\ UNCHANGED <<shared, op, locals, result, path>>

\* ------------------------------------------------- cdp_click / cdp_type
\* CdpLookup raising for an absent profile, as stop_profile does
CdpLookup_Raises(t) ==
    /\ pc[t] = "c_lookup"
    /\ IF ~is_running(arg[t])
       THEN Finish(t, "NotRunning", None)
       ELSE /\ sb' = [sb EXCEPT ![t] = Some(Get(running_profiles, arg[t]).sb)]
            /\ Goto(t, "c_activate")
            /\ UNCHANGED <<debug_port, websocket_url, pid, result>>
    /\ UNCHANGED <<shared, op, arg, path, profile_ids>>

\* lines 418-421 / 429-432: get_running_profile, silent return when absent
CdpLookup(t) ==
    /\ pc[t] = "c_lookup"
    /\ IF ~is_running(arg[t])
       THEN Finish(t, "ok", None)
       ELSE /\ sb' = [sb EXCEPT ![t] = Some(Get(running_profiles, arg[t]).sb)]
            /\ Goto(t, "c_activate")
            /\ UNCHANGED <<debug_port, websocket_url, pid, result>>
    /\ UNCHANGED <<shared, op, arg, path, profile_ids>>

\* lines 423 / 433: sb.activate_cdp_mode(sb.get_current_url()); it cannot
\* succeed on a browser that is gone
CdpActivate(t) ==
    /\ pc[t] = "c_activate"
    /\ \E ok \in BOOLEAN :
        IF ok /\ procs[Val(sb[t])].alive
        THEN /\ procs' = [procs EXCEPT ![Val(sb[t])].mode = "cdp"]
             /\ Goto(t, "c_dispatch")
             /\ UNCHANGED <<locals, result>>
        ELSE /\ Finish(t, "Error", None)
             /\ procs' = Sweep(procs, running_profiles, sb')
    /\ UNCHANGED <<running_profiles, phase, op, arg, path, profile_ids>>

\* lines 424-425 / 434-435: sb.cdp.click or sb.cdp.type, then sb.reconnect();
\* an exception of either goes to the caller
CdpDispatch(t) ==
    /\ pc[t] = "c_dispatch"
    /\ \E dispatch_ok \in BOOLEAN, reconnect_ok \in BOOLEAN :
        IF dispatch_ok /\ reconnect_ok /\ procs[Val(sb[t])].alive
        THEN /\ Finish(t, "ok", None)
             /\ procs' = Sweep([procs EXCEPT ![Val(sb[t])].mode = "normal"],
                               running_profiles, sb')
        ELSE /\ Finish(t, "Error", None)
             /\ procs' = Sweep(procs, running_profiles, sb')
    /\ UNCHANGED <<running_profiles, phase, op, arg, path, profile_ids>>

\* ------------------------------------------------------------ get_stats
\* a request thread enters get_stats (the method takes no profile id)
CallStats(t) ==
    /\ t \in Workers
    /\ phase = "serving"
    /\ pc[t] = "idle"
    /\ t = FirstIdle
    /\ op' = [op EXCEPT ![t] = "get_stats"]
    /\ Goto(t, "g_iter")
    /\ UNCHANGED <<shared, arg, locals, result, path, profile_ids, statistics>>

\* lines 444-445: total_memory = 0 and the iterator of
\* self.running_profiles.items(), which remembers the size of the dict
GetStatsIter(t) ==
    /\ pc[t] = "g_iter"
    /\ it' = [it EXCEPT ![t] = Some([size |-> Len(running_profiles), seen |-> 0])]
    /\ total_memory' = [total_memory EXCEPT ![t] = 0]
    /\ Goto(t, "g_next")
    /\ UNCHANGED <<shared, op, arg, locals, result, path, profile_ids, stats>>

\* the get_stats call ends with result r
FinishStats(t, r) ==
    /\ Finish(t, r, None)
    /\ it' = [it EXCEPT ![t] = None]
    /\ total_memory' = [total_memory EXCEPT ![t] = 0]

\* lines 445-452: one turn of the loop.  The iterator raises RuntimeError
\* when the dict has another size than at its creation; the `for` is
\* outside the try block, so the error leaves get_stats.  The body reads
\* the memory of the process of the recorded pid; a missing pid is skipped
\* and a failed read is swallowed.
GetStatsNext(t) ==
    /\ pc[t] = "g_next"
    /\ IF Len(running_profiles) # Val(it[t]).size
       THEN /\ FinishStats(t, "RuntimeError")
            /\ UNCHANGED stats
       ELSE IF Val(it[t]).seen = Val(it[t]).size
       THEN /\ Goto(t, "g_return")
            /\ UNCHANGED <<locals, result, statistics>>
       ELSE /\ \E read_ok \in BOOLEAN :
                LET data == running_profiles[Val(it[t]).seen + 1]
                    read == /\ data.pid # None
                            /\ procs[Val(data.pid)].alive
                            /\ read_ok
                IN  total_memory' = [total_memory EXCEPT ![t] =
                                        IF read THEN @ + 1 ELSE @]
            /\ it' = [it EXCEPT ![t] = Some([Val(@) EXCEPT !.seen = @ + 1])]
            /\ UNCHANGED <<pc, locals, result, stats>>
    /\ UNCHANGED <<shared, op, arg, path, profile_ids>>

\* lines 454-458: the dict returned
GetStatsReturn(t) ==
    /\ pc[t] = "g_return"
    /\ stats' = [stats EXCEPT ![t] =
                    Some([running_count |-> Len(running_profiles),
                          total_memory_mb |-> total_memory[t],
                          profiles |-> Keys(running_profiles)])]
    /\ FinishStats(t, "ok")
    /\ UNCHANGED <<shared, op, arg, path, profile_ids>>

\* the response of a get_stats request is sent
ReturnStats(t) == stats' = [stats EXCEPT ![t] = None] /\ UNCHANGED <<it, total_memory>>

\* ----------------------------------------------------------------- Next
\* the steps of the session methods of thread t, launching from R
SessionStep(t, R) ==
    \/ Call(t) /\ UNCHANGED <<statistics, sequence, api>>
    \/ Return(t) /\ ReturnStats(t) /\ UNCHANGED <<sequence, api>>
    \/ StartCheck(t) /\ UNCHANGED <<statistics, sequence, api>>
    \/ StartLaunch(t, R) /\ UNCHANGED <<statistics, sequence, api>>
    \/ StartRegister(t) /\ UNCHANGED <<statistics, sequence, api>>
    \/ StopCheck(t) /\ UNCHANGED <<statistics, sequence, api>>
    \/ StopClose(t) /\ UNCHANGED <<statistics, sequence, api>>
    \/ StopFinally(t) /\ UNCHANGED <<statistics, sequence, api>>
    \/ Shutdown(t) /\ UNCHANGED <<statistics, sequence, api>>
    \/ CloseAllNext(t) /\ UNCHANGED <<statistics, sequence, api>>
    \/ CdpLookup(t) /\ UNCHANGED <<statistics, sequence, api>>
    \/ CdpActivate(t) /\ UNCHANGED <<statistics, sequence, api>>
    \/ CdpDispatch(t) /\ UNCHANGED <<statistics, sequence, api>>

\* the steps of get_stats of thread t
StatsStep(t) ==
    \/ CallStats(t) /\ UNCHANGED <<sequence, api>>
    \/ GetStatsIter(t) /\ UNCHANGED <<sequence, api>>
    \/ GetStatsNext(t) /\ UNCHANGED <<sequence, api>>
    \/ GetStatsReturn(t) /\ UNCHANGED <<sequence, api>>

\* request threads running concurrently, then the shutdown
Next ==
    \E t \in Threads :
        \/ SessionStep(t, CoreLaunchResults)
        \/ StatsStep(t)

Spec == Init /\ [][Next]_vars

\* one request at a time, every launch result, then the shutdown
NextSerial ==
    \E t \in {Pool[1], Main} :
        \/ SessionStep(t, LaunchResults)
        \/ StatsStep(t)

SpecSerial == Init /\ [][NextSerial]_vars

\* a thread that is inside a call takes its next step: the calls the
\* methods make all return or raise (requests.get has timeout=5 at line
\* 237, process.wait timeout=5 at line 159), and a pool thread that can run
\* is scheduled
Proceed(t) ==
    /\ pc[t] # "idle"
    /\ SessionStep(t, LaunchResults) \/ StatsStep(t)

FairSerial == SpecSerial /\ \A t \in {Pool[1], Main} : WF_vars(Proceed(t))

\* ------------------------------------------------- the API endpoints
\* api/profiles.py: the endpoints are plain functions that FastAPI runs on
\* pool threads; each reads the profile row, calls the manager and writes
\* the status column
ApiEndpoints == {"start", "stop", "delete", "click", "type"}

ApiEntry(e) ==
    CASE e = "start"  -> "e_start"
      [] e = "stop"   -> "e_stop"
      [] e = "delete" -> "e_delete"
      [] OTHER        -> "e_cdp"

\* the requests all name one profile: the endpoints share nothing between
\* two profile ids but the registry dictionary itself
ApiProfiles == {"p1"}

\* ProfileService.update_status: nothing is written when the row is gone
update_status(st, id, value) ==
    IF st[id] = "deleted" THEN st ELSE [st EXCEPT ![id] = value]

\* a request is handed to an idle thread, which enters an endpoint
ApiCall(t) ==
    /\ t \in Workers
    /\ phase = "serving"
    /\ pc[t] = "idle"
    /\ t = FirstIdle
    /\ \E e \in ApiEndpoints, id \in ApiProfiles :
        /\ endpoint' = [endpoint EXCEPT ![t] = e]
        /\ arg' = [arg EXCEPT ![t] = id]
        /\ Goto(t, ApiEntry(e))
    /\ UNCHANGED <<shared, locals, op, result, path, profile_ids, status, response>>

\* the thread enters manager method m
Enter(t, m) ==
    /\ op' = [op EXCEPT ![t] = m]
    /\ Goto(t, Entry(m))
    /\ UNCHANGED <<shared, locals, arg, result, path, profile_ids, api>>

\* the endpoint returns the response r; what the manager call left in the
\* thread's frame is dropped
ApiLeave(t, r) ==
    /\ response' = [response EXCEPT ![t] = r]
    /\ Goto(t, "e_responded")
    /\ op' = [op EXCEPT ![t] = Idle]
    /\ result' = [result EXCEPT ![t] = Idle]
    /\ path' = [path EXCEPT ![t] = Idle]
    /\ sb' = [sb EXCEPT ![t] = None]
    /\ procs' = Sweep(procs, running_profiles, sb')
    /\ UNCHANGED <<running_profiles, phase, arg, debug_port, websocket_url, pid,
                   profile_ids, endpoint>>

\* the response is sent and the thread goes back to the pool
ApiDone(t) ==
    /\ pc[t] = "e_responded"
    /\ Goto(t, "idle")
    /\ endpoint' = [endpoint EXCEPT ![t] = Idle]
    /\ arg' = [arg EXCEPT ![t] = Idle]
    /\ response' = [response EXCEPT ![t] = Idle]
    /\ UNCHANGED <<shared, locals, op, result, path, profile_ids, status>>

\* start endpoint, lines 203-220: the row is read, then the manager called
ApiStart(t) ==
    /\ pc[t] = "e_start"
    /\ IF status[arg[t]] = "deleted"
       THEN ApiLeave(t, "not_found") /\ UNCHANGED status
       ELSE Enter(t, "start_profile")

\* start endpoint, lines 222-247: 'running' is written after the manager
\* returned; an exception of the manager becomes the error response
ApiStartPersist(t) ==
    /\ pc[t] = "done"
    /\ endpoint[t] = "start"
    /\ IF result[t] = "ok"
       THEN status' = update_status(status, arg[t], "running") /\ ApiLeave(t, "success")
       ELSE UNCHANGED status /\ ApiLeave(t, "error")

\* stop endpoint, line 255: is_running
ApiStop(t) ==
    /\ pc[t] = "e_stop"
    /\ IF is_running(arg[t])
       THEN Enter(t, "stop_profile")
       ELSE /\ Goto(t, "e_sync")
            /\ UNCHANGED <<shared, locals, op, arg, result, path, profile_ids, api>>

\* stop endpoint, lines 256-264: not running, the row is set to available
ApiStopSync(t) ==
    /\ pc[t] = "e_sync"
    /\ status' = update_status(status, arg[t], "available")
    /\ ApiLeave(t, "success")

\* stop endpoint, lines 266-279: 'available' is written after the manager
\* returned; an exception of the manager becomes the error response
ApiStopPersist(t) ==
    /\ pc[t] = "done"
    /\ endpoint[t] = "stop"
    /\ IF result[t] = "ok"
       THEN status' = update_status(status, arg[t], "available") /\ ApiLeave(t, "success")
       ELSE UNCHANGED status /\ ApiLeave(t, "error")

\* delete endpoint, lines 170-174: a running profile is stopped first
ApiDelete(t) ==
    /\ pc[t] = "e_delete"
    /\ IF is_running(arg[t])
       THEN Enter(t, "stop_profile")
       ELSE /\ Goto(t, "e_remove")
            /\ UNCHANGED <<shared, locals, op, arg, result, path, profile_ids, api>>

\* delete endpoint, lines 173-185: whatever stop_profile raised is passed
\* over; ProfileService.delete removes the row and tells whether it was
\* there
ApiDeleteRemove(t) ==
    /\ endpoint[t] = "delete"
    /\ pc[t] \in {"e_remove", "done"}
    /\ status' = [status EXCEPT ![arg[t]] = "deleted"]
    /\ ApiLeave(t, IF status[arg[t]] = "deleted" THEN "not_found" ELSE "success")

\* click and type endpoints, lines 397-398 and 410-411: is_running
ApiCdp(t) ==
    /\ pc[t] = "e_cdp"
    /\ IF is_running(arg[t])
       THEN Enter(t, IF endpoint[t] = "click" THEN "cdp_click" ELSE "cdp_type")
       ELSE ApiLeave(t, "not_running") /\ UNCHANGED status

\* click and type endpoints, lines 400-405 and 413-418: success when the
\* manager method returned, error when it raised
ApiCdpRespond(t) ==
    /\ pc[t] = "done"
    /\ endpoint[t] \in {"click", "type"}
    /\ ApiLeave(t, IF result[t] = "ok" THEN "success" ELSE "error")
    /\ UNCHANGED status

\* the steps of the manager methods an endpoint calls
ManagerStep(t, R) ==
    \/ StartCheck(t) /\ UNCHANGED <<statistics, sequence, api>>
    \/ StartLaunch(t, R) /\ UNCHANGED <<statistics, sequence, api>>
    \/ StartRegister(t) /\ UNCHANGED <<statistics, sequence, api>>
    \/ StopCheck(t) /\ UNCHANGED <<statistics, sequence, api>>
    \/ StopClose(t) /\ UNCHANGED <<statistics, sequence, api>>
    \/ StopFinally(t) /\ UNCHANGED <<statistics, sequence, api>>
    \/ CdpLookup(t) /\ UNCHANGED <<statistics, sequence, api>>
    \/ CdpActivate(t) /\ UNCHANGED <<statistics, sequence, api>>
    \/ CdpDispatch(t) /\ UNCHANGED <<statistics, sequence, api>>

\* the steps of the endpoints themselves
ApiStep(t) ==
    \/ ApiCall(t) /\ UNCHANGED <<statistics, sequence>>
    \/ ApiDone(t) /\ UNCHANGED <<statistics, sequence>>
    \/ ApiStart(t) /\ UNCHANGED <<statistics, sequence>>
    \/ ApiStartPersist(t) /\ UNCHANGED <<statistics, sequence>>
    \/ ApiStop(t) /\ UNCHANGED <<statistics, sequence>>
    \/ ApiStopSync(t) /\ UNCHANGED <<statistics, sequence>>
    \/ ApiStopPersist(t) /\ UNCHANGED <<statistics, sequence>>
    \/ ApiDelete(t) /\ UNCHANGED <<statistics, sequence>>
    \/ ApiDeleteRemove(t) /\ UNCHANGED <<statistics, sequence>>
    \/ ApiCdp(t) /\ UNCHANGED <<statistics, sequence>>
    \/ ApiCdpRespond(t) /\ UNCHANGED <<statistics, sequence>>

\* requests served concurrently by the pool threads
NextApi ==
    \E t \in Workers :
        \/ ApiStep(t)
        \/ ManagerStep(t, CoreLaunchResults)

SpecApi == Init /\ [][NextApi]_vars

\* ------------------------------------- start_profile, statement by statement
\* str.split(sep) for a separator of one character
RECURSIVE split(_, _)
split(txt, sep) ==
    IF \A i \in 1..Len(txt) : txt[i] # sep
    THEN <<txt>>
    ELSE LET k == CHOOSE i \in 1..Len(txt) :
                      txt[i] = sep /\ \A j \in 1..(i - 1) : txt[j] # sep
         IN  <<SubSeq(txt, 1, k - 1)>> \o split(SubSeq(txt, k + 1, Len(txt)), sep)

\* float(text) on texts of digits, sign, point and other characters: the
\* number as [num, scale] for num / 10^scale, None for the ValueError
float(txt) ==
    LET signed == txt # <<>> /\ txt[1] \in {"-", "+"}
        body   == IF signed THEN Tail(txt) ELSE txt
        parts  == split(body, ".")
        frac   == IF Len(parts) = 2 THEN parts[2] ELSE <<>>
        digits == parts[1] \o frac
    IN  IF Len(parts) <= 2 /\ digits # <<>>
           /\ \A i \in 1..Len(digits) : IsDigit(digits[i])
        THEN Some([num |-> (IF signed /\ txt[1] = "-" THEN -1 ELSE 1)
                               * DecimalValue(digits),
                   scale |-> Len(frac)])
        ELSE None

\* _build_chrome_options with the caller's flags put first
_build_chrome_options_ExtrasFirst(p, extra_flags) ==
    LET res    == p.screen_resolution
        window == IF res = None THEN <<>>
                  ELSE << <<"--window-size=", Val(res)[1], ",", Val(res)[2]>> >>
        proxy  == IF p.proxy_string = None THEN <<>>
                  ELSE << <<"--proxy-server=", Val(p.proxy_string)>> >>
        webrtc == IF p.webrtc_mode = "disabled"
                  THEN << <<"--disable-webrtc">> >> ELSE <<>>
    IN  IF ResolutionOk(res)
        THEN Some(extra_flags \o window \o proxy \o webrtc)
        ELSE None

\* lines 195-213; None stands for the ValueError of line 199
_build_chrome_options(p, extra_flags) ==
    LET res    == p.screen_resolution
        window == IF res = None THEN <<>>
                  ELSE << <<"--window-size=", Val(res)[1], ",", Val(res)[2]>> >>
        proxy  == IF p.proxy_string = None THEN <<>>
                  ELSE << <<"--proxy-server=", Val(p.proxy_string)>> >>
        webrtc == IF p.webrtc_mode = "disabled"
                  THEN << <<"--disable-webrtc">> >> ELSE <<>>
    IN  IF ResolutionOk(res)
        THEN Some(window \o proxy \o webrtc \o extra_flags)
        ELSE None

\* Coordinates taking the first two parts of the text, whatever follows
Coordinates_FirstTwo(g) ==
    IF g = None \/ \A i \in 1..Len(Val(g)) : Val(g)[i] # ","
    THEN None
    ELSE LET parts == split(Val(g), ",")
         IN  IF float(parts[1]) # None /\ float(parts[2]) # None
             THEN Some([latitude |-> Val(float(parts[1])),
                        longitude |-> Val(float(parts[2])),
                        accuracy |-> GeolocationAccuracy])
             ELSE None

\* lines 379-381: the coordinates the injector reads from the geolocation
\* text, None when the text is unset, has no comma, or the unpacking of
\* map(float, ...) raises
Coordinates(g) ==
    IF g = None \/ \A i \in 1..Len(Val(g)) : Val(g)[i] # ","
    THEN None
    ELSE LET parts == split(Val(g), ",")
         IN  IF Len(parts) = 2 /\ float(parts[1]) # None /\ float(parts[2]) # None
             THEN Some([latitude |-> Val(float(parts[1])),
                        longitude |-> Val(float(parts[2])),
                        accuracy |-> GeolocationAccuracy])
             ELSE None

\* line 292: random.randint(1, 1000), both ends included
randint(a, b) == a..b

\* one call the session has made: its name and its arguments
Called(c, a) == [cmd |-> c, arg |-> a]

\* a statement of start_profile raises: the exception leaves the method
\* (the except clause of lines 126-128 prints and re-raises)
Raise(at) ==
    /\ trace' = Append(trace, Called("raise", <<at>>))
    /\ start_result' = "LaunchFailure"
    /\ step' = "idle"
    /\ noise_seed' = None

\* Absorb without the except clause of the injector: the exception goes on
\* into start_profile
Absorb_Propagates ==
    /\ trace' = Append(trace, Called("raise", <<"_apply_fingerprint_overrides">>))
    /\ start_result' = "LaunchFailure"
    /\ step' = "idle"
    /\ noise_seed' = None

\* a statement of the injector raises: lines 395-396 print and return
Absorb ==
    /\ trace' = Append(trace, Called("_apply_fingerprint_overrides", <<"error">>))
    /\ step' = "pages"
    /\ noise_seed' = None
    /\ UNCHANGED start_result

\* a statement went through: the call is recorded, the next statement is s
Done(e, s) ==
    /\ trace' = trace \o e
    /\ step' = s
    /\ UNCHANGED start_result

\* the old state of the manager, which these specifications leave alone
\* except for the registry
threads == <<procs, phase, pc, op, arg, sb, debug_port, websocket_url, pid,
             result, path, profile_ids, statistics, api>>

\* lines 52-56: a start_profile call with arguments from I; refused when
\* the profile is running
Begin(I) ==
    /\ step \in {"idle", "running"}
    /\ sessions < MaxSessions
    /\ sessions' = sessions + 1
    /\ IF step = "running"
       THEN /\ start_result' = "AlreadyRunning"
            /\ UNCHANGED <<profile, chrome_flags, start_pages, step, chrome_options,
                           resolved, noise_seed, draws, pages_left, trace, interactions>>
       ELSE /\ \E in \in I :
                /\ profile' = in.profile
                /\ chrome_flags' = in.chrome_flags
                /\ start_pages' = in.start_pages
                /\ pages_left' = in.start_pages
            /\ step' = "prepare"
            /\ chrome_options' = None
            /\ resolved' = None
            /\ noise_seed' = None
            /\ draws' = 0
            /\ trace' = <<>>
            /\ start_result' = Idle
            /\ interactions' = 0
    /\ UNCHANGED <<running_profiles, threads>>

\* lines 58-67, outside the try block: os.makedirs, _build_chrome_options
Prepare ==
    /\ step = "prepare"
    /\ \E mkdir_ok \in BOOLEAN :
        IF ~mkdir_ok
        THEN Raise("os.makedirs") /\ UNCHANGED chrome_options
        ELSE IF _build_chrome_options(profile, chrome_flags) = None
        THEN /\ trace' = trace \o <<Called("os.makedirs", <<>>),
                                    Called("raise", <<"_build_chrome_options">>)>>
             /\ start_result' = "LaunchFailure"
             /\ step' = "idle"
             /\ UNCHANGED <<chrome_options, noise_seed>>
        ELSE /\ chrome_options' = _build_chrome_options(profile, chrome_flags)
             /\ Done(<<Called("os.makedirs", <<>>)>>, "boot")
             /\ UNCHANGED noise_seed
    /\ UNCHANGED <<running_profiles, threads, profile, chrome_flags, start_pages,
                   resolved, draws, pages_left, sessions, interactions>>

\* lines 71-82: SB(...).__enter__() with the options joined by commas
Boot ==
    /\ step = "boot"
    /\ \E ok \in BOOLEAN :
        IF ok
        THEN Done(<<Called("SB", Val(chrome_options))>>, "blank") /\ UNCHANGED noise_seed
        ELSE Raise("SB")
    /\ UNCHANGED <<running_profiles, threads, profile, chrome_flags, start_pages,
                   chrome_options, resolved, draws, pages_left, sessions, interactions>>

\* line 85: driver.get("about:blank")
Blank ==
    /\ step = "blank"
    /\ \E ok \in BOOLEAN :
        IF ok
        THEN Done(<<Called("driver.get", <<"about:blank">>)>>, "resolve")
             /\ UNCHANGED noise_seed
        ELSE Raise("driver.get")
    /\ UNCHANGED <<running_profiles, threads, profile, chrome_flags, start_pages,
                   chrome_options, resolved, draws, pages_left, sessions, interactions>>

\* lines 88-96: debug port, websocket URL and pid; none of them raises.
\* The driver d and the reply of /json/version are kept beside the results.
Resolve(D, V) ==
    /\ step = "resolve"
    /\ \E d \in D, reply \in V, has_pid \in BOOLEAN :
        resolved' = Some([driver |-> d, reply |-> reply,
                          debug_port |-> _get_debug_port(d),
                          websocket_url |-> _get_websocket_url(reply, _get_debug_port(d)),
                          pid |-> IF has_pid THEN Some(1) ELSE None])
    /\ Done(<<Called("_get_debug_port", <<>>), Called("_get_websocket_url", <<>>)>>,
            "activate")
    /\ UNCHANGED <<running_profiles, threads, profile, chrome_flags, start_pages,
                   chrome_options, noise_seed, draws, pages_left, sessions, interactions>>

\* line 261: sb.activate_cdp_mode("about:blank")
Activate ==
    /\ step = "activate"
    /\ \E ok \in BOOLEAN :
        IF ok
        THEN Done(<<Called("activate_cdp_mode", <<"about:blank">>)>>, "adblock")
             /\ UNCHANGED noise_seed
        ELSE Absorb
    /\ UNCHANGED <<running_profiles, threads, profile, chrome_flags, start_pages,
                   chrome_options, resolved, draws, pages_left, sessions, interactions>>

\* BlockAds without its own try block: a failed Network.setBlockedURLs ends
\* the injector
BlockAds_Fatal ==
    /\ step = "adblock"
    /\ \E ok \in BOOLEAN :
        IF profile.adblock_enabled /\ ~ok
        THEN Absorb
        ELSE /\ Done(IF profile.adblock_enabled
                     THEN <<Called("Network.setBlockedURLs", <<>>)>> ELSE <<>>,
                     "user_agent")
             /\ UNCHANGED noise_seed
    /\ UNCHANGED <<running_profiles, threads, profile, chrome_flags, start_pages,
                   chrome_options, resolved, draws, pages_left, sessions, interactions>>

\* lines 268-279: Network.setBlockedURLs in a try block of its own
BlockAds ==
    /\ step = "adblock"
    /\ \E ok \in BOOLEAN :
        IF profile.adblock_enabled /\ ok
        THEN Done(<<Called("Network.setBlockedURLs", <<>>)>>, "user_agent")
        ELSE Done(<<>>, "user_agent")
    /\ UNCHANGED <<running_profiles, threads, profile, chrome_flags, start_pages,
                   chrome_options, resolved, noise_seed, draws, pages_left, sessions,
                   interactions>>

\* lines 282-285: Network.setUserAgentOverride when a user agent is set
OverrideUserAgent ==
    /\ step = "user_agent"
    /\ \E ok \in BOOLEAN :
        IF profile.user_agent = None
        THEN Done(<<>>, "seed") /\ UNCHANGED noise_seed
        ELSE IF ok
        THEN Done(<<Called("Network.setUserAgentOverride", profile.user_agent)>>, "seed")
             /\ UNCHANGED noise_seed
        ELSE Absorb
    /\ UNCHANGED <<running_profiles, threads, profile, chrome_flags, start_pages,
                   chrome_options, resolved, draws, pages_left, sessions, interactions>>

\* DrawSeed keeping one seed per profile: only the first start draws
DrawSeed_PerProfile(S) ==
    /\ step = "seed"
    /\ IF sessions = 1
       THEN (\E n \in S : noise_seed' = Some(n)) /\ draws' = draws + 1
       ELSE noise_seed' = Some(NoiseSeedMin) /\ draws' = draws
    /\ step' = "script"
    /\ UNCHANGED <<running_profiles, threads, profile, chrome_flags, start_pages,
                   chrome_options, resolved, pages_left, trace, start_result, sessions,
                   interactions>>

\* lines 288-366: the seed is drawn from S and the script text is built
DrawSeed(S) ==
    /\ step = "seed"
    /\ \E n \in S : noise_seed' = Some(n)
    /\ draws' = draws + 1
    /\ step' = "script"
    /\ UNCHANGED <<running_profiles, threads, profile, chrome_flags, start_pages,
                   chrome_options, resolved, pages_left, trace, start_result, sessions,
                   interactions>>

\* lines 369-371: Page.addScriptToEvaluateOnNewDocument with the script
\* that holds the seed as NOISE_SEED
AddScript ==
    /\ step = "script"
    /\ \E ok \in BOOLEAN :
        IF ok
        THEN Done(<<Called("Page.addScriptToEvaluateOnNewDocument", noise_seed)>>,
                  "timezone")
             /\ UNCHANGED noise_seed
        ELSE Absorb
    /\ UNCHANGED <<running_profiles, threads, profile, chrome_flags, start_pages,
                   chrome_options, resolved, draws, pages_left, sessions, interactions>>

\* lines 374-377: Emulation.setTimezoneOverride when a timezone is set
OverrideTimezone ==
    /\ step = "timezone"
    /\ \E ok \in BOOLEAN :
        IF profile.timezone = None
        THEN Done(<<>>, "geolocation") /\ UNCHANGED noise_seed
        ELSE IF ok
        THEN Done(<<Called("Emulation.setTimezoneOverride", profile.timezone)>>,
                  "geolocation")
             /\ UNCHANGED noise_seed
        ELSE Absorb
    /\ UNCHANGED <<running_profiles, threads, profile, chrome_flags, start_pages,
                   chrome_options, resolved, draws, pages_left, sessions, interactions>>

GeolocationOutcomes == {"ok", "grant_raised", "override_raised"}

\* lines 379-390: Browser.grantPermissions and
\* Emulation.setGeolocationOverride in a try block of their own
OverrideGeolocation ==
    /\ step = "geolocation"
    /\ \E r \in GeolocationOutcomes :
        LET c      == Coordinates(profile.geolocation)
            grant  == Called("Browser.grantPermissions", <<"geolocation">>)
        IN  IF c = None \/ r = "grant_raised"
            THEN Done(<<>>, "reconnect")
            ELSE IF r = "override_raised"
            THEN Done(<<grant>>, "reconnect")
            ELSE Done(<<grant, Called("Emulation.setGeolocationOverride", c)>>,
                      "reconnect")
    /\ UNCHANGED <<running_profiles, threads, profile, chrome_flags, start_pages,
                   chrome_options, resolved, noise_seed, draws, pages_left, sessions,
                   interactions>>

\* line 393: sb.reconnect(), the last statement of the injector
Reconnect ==
    /\ step = "reconnect"
    /\ \E ok \in BOOLEAN :
        IF ok
        THEN /\ Done(<<Called("reconnect", <<>>),
                       Called("_apply_fingerprint_overrides", <<"ok">>)>>, "pages")
             /\ noise_seed' = None
        ELSE Absorb
    /\ UNCHANGED <<running_profiles, threads, profile, chrome_flags, start_pages,
                   chrome_options, resolved, draws, pages_left, sessions, interactions>>

\* lines 102-107: one turn of the loop over start_pages
OpenPage ==
    /\ step = "pages"
    /\ pages_left # <<>>
    /\ \E ok \in BOOLEAN :
        IF ~ok
        THEN Raise(IF Len(pages_left) = Len(start_pages)
                   THEN "driver.get" ELSE "driver.execute_script")
             /\ UNCHANGED pages_left
        ELSE /\ Done(<<IF Len(pages_left) = Len(start_pages)
                       THEN Called("driver.get", <<Head(pages_left)>>)
                       ELSE Called("window.open", <<Head(pages_left)>>)>>, "pages")
             /\ pages_left' = Tail(pages_left)
             /\ UNCHANGED noise_seed
    /\ UNCHANGED <<running_profiles, threads, profile, chrome_flags, start_pages,
                   chrome_options, resolved, draws, sessions, interactions>>

\* Store ahead of the loop over the start pages
Store_BeforePages ==
    /\ step = "pages"
    /\ running_profiles' = Put(running_profiles,
            [id |-> profile.id, sb |-> 1, pid |-> Val(resolved).pid,
             debug_port |-> Val(resolved).debug_port,
             websocket_url |-> Val(resolved).websocket_url])
    /\ trace' = Append(trace, Called("store", <<>>))
    /\ start_result' = "ok"
    /\ step' = "running"
    /\ UNCHANGED <<threads, profile, chrome_flags, start_pages, chrome_options,
                   resolved, noise_seed, draws, pages_left, sessions, interactions>>

\* lines 109-124: the handle is stored and the result returned
Store ==
    /\ step = "pages"
    /\ pages_left = <<>>
    /\ running_profiles' = Put(running_profiles,
            [id |-> profile.id, sb |-> 1, pid |-> Val(resolved).pid,
             debug_port |-> Val(resolved).debug_port,
             websocket_url |-> Val(resolved).websocket_url])
    /\ trace' = Append(trace, Called("store", <<>>))
    /\ start_result' = "ok"
    /\ step' = "running"
    /\ UNCHANGED <<threads, profile, chrome_flags, start_pages, chrome_options,
                   resolved, noise_seed, draws, pages_left, sessions, interactions>>

InteractOutcomes == {"ok", "activate_raised", "dispatch_raised", "reconnect_raised"}

\* lines 416-435: cdp_click or cdp_type on the running session
Interact ==
    /\ step = "running"
    /\ interactions < MaxInteractions
    /\ interactions' = interactions + 1
    /\ \E m \in {"cdp.click", "cdp.type"}, r \in InteractOutcomes :
        LET activate == Called("activate_cdp_mode", <<"current_url">>)
        IN  trace' = trace \o
               CASE r = "activate_raised"  -> <<>>
                 [] r = "dispatch_raised"  -> <<activate>>
                 [] r = "reconnect_raised" -> <<activate, Called(m, <<>>)>>
                 [] OTHER -> <<activate, Called(m, <<>>), Called("reconnect", <<>>)>>
    /\ UNCHANGED <<running_profiles, threads, profile, chrome_flags, start_pages, step,
                   chrome_options, resolved, noise_seed, draws, pages_left, start_result,
                   sessions>>

\* StopCalls with the forced kill outside the except clause: the process
\* of a recorded pid is terminated whether or not __exit__ raised
StopCalls_AlwaysTerminate(in, p) ==
    <<Called("__exit__", <<IF in.exit_ok THEN "ok" ELSE "raised">>)>>
    \o (IF p = None THEN <<>>
        ELSE <<Called("psutil.Process", p)>>
             \o (IF in.kill = "lookup_raised" THEN <<>>
                 ELSE <<Called("terminate", p),
                        Called("wait", <<IF in.kill = "terminated"
                                         THEN "exited" ELSE "timeout">>)>>))

\* the calls of lines 145-161 on a handle whose recorded pid is p: the
\* graceful close, and in its except clause, when a pid is recorded, the
\* process lookup, terminate and the bounded wait
StopCalls(in, p) ==
    <<Called("__exit__", <<IF in.exit_ok THEN "ok" ELSE "raised">>)>>
    \o (IF in.exit_ok \/ p = None THEN <<>>
        ELSE <<Called("psutil.Process", p)>>
             \o (IF in.kill = "lookup_raised" THEN <<>>
                 ELSE <<Called("terminate", p),
                        Called("wait", <<IF in.kill = "terminated"
                                         THEN "exited" ELSE "timeout">>)>>))

\* a close that goes through at once
GracefulClose == {in \in CloseInputs : in.exit_ok /\ in.gone /\ in.kill = "terminated"}

\* lines 130-166: stop_profile on the running session, the close going one
\* of the ways of C
Stop(C) ==
    /\ step = "running"
    /\ \E in \in C :
        trace' = trace \o StopCalls(in, Val(resolved).pid) \o <<Called("del", <<>>)>>
    /\ running_profiles' = Del(running_profiles, profile.id)
    /\ step' = "idle"
    /\ UNCHANGED <<threads, profile, chrome_flags, start_pages, chrome_options,
                   resolved, noise_seed, draws, pages_left, start_result, sessions,
                   interactions>>

\* the seeds of the specification that runs every profile and argument
SeedSamples == {NoiseSeedMin, NoiseSeedMax}

\* one thread, one call after another, statement by statement
NextStart ==
    \/ Begin(StartInputs)
    \/ Prepare
    \/ Boot
    \/ Blank
    \/ Resolve(SessionDrivers, {"ok"})
    \/ Activate
    \/ BlockAds
    \/ OverrideUserAgent
    \/ DrawSeed(SeedSamples)
    \/ AddScript
    \/ OverrideTimezone
    \/ OverrideGeolocation
    \/ Reconnect
    \/ OpenPage
    \/ Store
    \/ Interact
    \/ Stop(GracefulClose)

SpecStart == Init /\ [][NextStart]_vars

\* the profile and arguments of the specification that draws every seed
SeedInputs ==
    {[profile |-> DefaultProfile, chrome_flags |-> <<>>,
      start_pages |-> <<"https://a.example">>]}

\* the same calls with every seed random.randint can give
NextSeed ==
    \/ Begin(SeedInputs)
    \/ Prepare
    \/ Boot
    \/ Blank
    \/ Resolve(SessionDrivers, {"ok"})
    \/ Activate
    \/ BlockAds
    \/ OverrideUserAgent
    \/ DrawSeed(randint(NoiseSeedMin, NoiseSeedMax))
    \/ AddScript
    \/ OverrideTimezone
    \/ OverrideGeolocation
    \/ Reconnect
    \/ OpenPage
    \/ Store
    \/ Interact
    \/ Stop(GracefulClose)

SpecSeed == Init /\ [][NextSeed]_vars

\* the same calls with every driver shape and every reply at the endpoint
\* resolution and every way the close of stop_profile can go
NextClose ==
    \/ Begin(SeedInputs)
    \/ Prepare
    \/ Boot
    \/ Blank
    \/ Resolve(Drivers, VersionReplies)
    \/ Activate
    \/ BlockAds
    \/ OverrideUserAgent
    \/ DrawSeed({NoiseSeedMin})
    \/ AddScript
    \/ OverrideTimezone
    \/ OverrideGeolocation
    \/ Reconnect
    \/ OpenPage
    \/ Store
    \/ Interact
    \/ Stop(CloseInputs)

SpecClose == Init /\ [][NextClose]_vars

\* ============================================================== claims
StartSucceeds(t) ==
    /\ op[t] = "start_profile"
    /\ pc[t] = "s_register"
    /\ pc'[t] = "done"
    /\ result'[t] = "ok"

StartFailed(t) ==
    /\ op[t] = "start_profile"
    /\ pc[t] = "done"
    /\ result[t] = "LaunchFailure"

StopEnds(t) ==
    /\ op[t] \in {"stop_profile", "close_all"}
    /\ pc[t] \in {"p_check", "p_close", "p_finally"}
    /\ pc'[t] \in {"done", "ca_loop"}

Cdp == {"cdp_click", "cdp_type"}

\* C1: of two start calls for one profile id with no stop between them only
\* one succeeds and the other gets AlreadyRunning, also when they run on two
\* threads at once: a start never returns success for an id that has an
\* entry at that moment.
C1_OneStartWins ==
    [][\A t \in Workers : StartSucceeds(t) => ~is_running(arg[t])]_vars

\* C2: is_running(id) is false at first, turns true only in the step in which
\* a start for that id returns success, and is false in the state in which
\* a stop for that id returns, whichever way the close went.
C2_RunningFromStartToStop ==
    /\ \A id \in Profiles : ~is_running(id)
    /\ [][/\ \A id \in Profiles :
              (~is_running(id) /\ is_running(id)')
                  => \E t \in Workers : StartSucceeds(t) /\ arg[t] = id
          /\ \A t \in Threads : StopEnds(t) => ~is_running(arg[t])']_vars

C2_Witness ==
    \E t \in Workers :
        /\ op[t] = "stop_profile" /\ pc[t] = "done" /\ result[t] = "ok"
        /\ path[t] = "forced"
        /\ ~is_running(arg[t])

\* C3: a start that fails before the store leaves the registry alone: no
\* step of a start call other than its successful return changes any
\* entry, and the browser a failed call has booted is in no entry.
C3_FailedStartLeavesRegistry ==
    [][\A t \in Workers :
          (op[t] = "start_profile" /\ pc'[t] # pc[t] /\ ~StartSucceeds(t))
              => /\ running_profiles' = running_profiles
                 /\ sb'[t] # None =>
                       \A k \in 1..Len(running_profiles') :
                           running_profiles'[k].sb # Val(sb'[t])]_vars

C3_Witness ==
    \E t \in Workers :
        /\ StartFailed(t)
        /\ sb[t] # None
        /\ ~is_running(arg[t])
        /\ running_profiles # <<>>

\* C4: when a start fails after the browser was booted, the browser is torn
\* down before the failure reaches the caller.
C4_FailedStartTearsDown ==
    \A t \in Workers :
        (StartFailed(t) /\ sb[t] # None) => ~procs[Val(sb[t])].alive

\* C5: stop on a profile id without entry fails with NotRunning, closes and
\* terminates nothing and leaves the registry as it was.
C5_StopAbsent ==
    [][\A t \in Workers :
          (op[t] = "stop_profile" /\ pc[t] = "p_check" /\ pc'[t] # pc[t]
               /\ ~is_running(arg[t]))
              => /\ pc'[t] = "done"
                 /\ result'[t] = "NotRunning"
                 /\ running_profiles' = running_profiles
                 /\ procs' = procs]_vars

C5_Witness ==
    \E t \in Workers :
        /\ op[t] = "stop_profile" /\ pc[t] = "done" /\ result[t] = "NotRunning"
        /\ running_profiles # <<>>

\* C6: a stop on a registered id goes from the close to the finally clause
\* and ends there without an error and with the entry removed, whether the
\* close went through, the terminate did, or the terminate failed too.
C6_StopAlwaysRemoves ==
    [][\A t \in Workers :
          (op[t] = "stop_profile" /\ pc[t] \in {"p_close", "p_finally"}
               /\ pc'[t] # pc[t])
              => /\ pc[t] = "p_close" => pc'[t] = "p_finally"
                 /\ pc[t] = "p_finally" =>
                       /\ pc'[t] = "done"
                       /\ result'[t] = "ok"
                       /\ ~is_running(arg[t])']_vars

C6_Witness ==
    \E t \in Workers :
        /\ op[t] = "stop_profile" /\ pc[t] = "done" /\ result[t] = "ok"
        /\ path[t] = "forced_failed"

\* C7: when close_all has returned the registry is empty, whatever went
\* wrong inside the stops it made.
C7_CloseAllEmpties ==
    pc[Main] = "done" => running_profiles = <<>>

C7_Witness ==
    /\ pc[Main] = "done"
    /\ path[Main] = "forced_failed"
    /\ running_profiles = <<>>

\* C8: cdp_click and cdp_type on a profile id without entry return without
\* raising and change neither the registry nor any browser.
C8_CdpAbsentNoOp ==
    [][\A t \in Workers :
          (op[t] \in Cdp /\ pc[t] = "c_lookup" /\ pc'[t] # pc[t]
               /\ ~is_running(arg[t]))
              => /\ pc'[t] = "done"
                 /\ result'[t] = "ok"
                 /\ running_profiles' = running_profiles
                 /\ procs' = procs]_vars

C8_Witness ==
    \E t \in Workers :
        /\ op[t] \in Cdp /\ pc[t] = "done" /\ result[t] = "ok"
        /\ running_profiles = <<>>
        /\ \A i \in 1..MaxProcs : ~procs[i].alive

\* a call that is working on the session it took from the registry
OnSession(t) == pc[t] \in {"c_activate", "c_dispatch", "p_close"}

\* C9: no two of click, type and stop work on the same session at once; no
\* stop runs between the mode switch and the reconnect of a click or type.
C9_SessionCallsExclusive ==
    \A t, u \in Threads :
        (t # u /\ OnSession(t) /\ OnSession(u)) => sb[t] # sb[u]

\* C10: the endpoint address a successful start returns and stores is never
\* empty, whatever the metadata query came to.
C10_EndpointNeverEmpty ==
    /\ \A t \in Workers : pc[t] = "s_register" => Val(websocket_url[t]) # <<>>
    /\ \A k \in 1..Len(running_profiles) : running_profiles[k].websocket_url # <<>>

\* C12: get_stats never raises: it ends with its dict, whose running_count
\* is the number of profile ids it lists, whatever the other threads do to
\* the registry meanwhile.
C12_StatsNeverRaises ==
    \A t \in Workers :
        (op[t] = "get_stats" /\ pc[t] = "done")
            => /\ result[t] = "ok"
               /\ stats[t] # None
               /\ Val(stats[t]).running_count = Len(Val(stats[t]).profiles)

\* C13: at no time are two live browser processes of the same profile id
\* within the program's reach.
C13_OneBrowserPerProfile ==
    \A i, j \in 1..MaxProcs :
        (i # j /\ procs[i].alive /\ procs[j].alive)
            => procs[i].profile # procs[j].profile

\* C19: a start on a profile id that has an entry ends at the membership
\* test with AlreadyRunning: no process is launched and the registry, with
\* the handle of that id, stays as it was.
C19_StartOnRunning ==
    [][\A t \in Workers :
          (op[t] = "start_profile" /\ pc[t] = "s_check" /\ pc'[t] # pc[t]
               /\ is_running(arg[t]))
              => /\ pc'[t] = "done"
                 /\ result'[t] = "AlreadyRunning"
                 /\ running_profiles' = running_profiles
                 /\ procs' = procs]_vars

C19_Witness ==
    \E t \in Workers :
        /\ op[t] = "start_profile" /\ pc[t] = "done"
        /\ result[t] = "AlreadyRunning"
        /\ is_running(arg[t])
        /\ procs[Get(running_profiles, arg[t]).sb].alive

\* two starts for different profile ids that have both launched their
\* browser and not yet stored their handle
BothLaunched(t, u) ==
    /\ t # u
    /\ op[t] = "start_profile" /\ op[u] = "start_profile"
    /\ pc[t] = "s_register" /\ pc[u] = "s_register"
    /\ arg[t] # arg[u]

\* C20: starts for different profile ids do not wait for each other: when
\* two of them are both between launch and store, either can store at once,
\* and a store succeeds, registers its id and keeps every other entry.
C20_ParallelStarts ==
    /\ [](\A t, u \in Workers :
            BothLaunched(t, u) => ENABLED StartRegister(t) /\ ENABLED StartRegister(u))
    /\ [][\A t \in Workers :
            StartSucceeds(t)
                => /\ is_running(arg[t])'
                   /\ \A id \in Profiles : is_running(id) => is_running(id)']_vars

C20_Witness ==
    \E t, u \in Workers : BothLaunched(t, u)

\* the statements of _apply_fingerprint_overrides
InjectSteps == {"activate", "adblock", "user_agent", "seed", "script",
                "timezone", "geolocation", "reconnect"}

\* the calls of trace tr named c
Calls(tr, c) == SelectSeq(tr, LAMBDA e : e.cmd = c)

\* the injector of this start has ended in its except clause
InjectRaised ==
    \E i \in 1..Len(trace) :
        trace[i].cmd = "_apply_fingerprint_overrides" /\ trace[i].arg = <<"error">>

\* C11: an exception at any statement of the injector stays inside it: the
\* start goes on to the start pages without a result and without touching
\* the registry, and when the pages are done it stores the handle and
\* returns success although the injection failed.
C11_InjectionFailureAbsorbed ==
    [][/\ (step \in InjectSteps /\ step' # step)
              => /\ step' \in InjectSteps \cup {"pages"}
                 /\ start_result' = Idle
                 /\ running_profiles' = running_profiles
       /\ (step = "pages" /\ pages_left = <<>> /\ InjectRaised /\ step' # step)
              => /\ start_result' = "ok"
                 /\ is_running(profile.id)']_vars

C11_Witness ==
    /\ step = "running"
    /\ start_result = "ok"
    /\ is_running(profile.id)
    /\ InjectRaised
    /\ Calls(trace, "Page.addScriptToEvaluateOnNewDocument") # <<>>

\* the calls start_profile makes itself, in the order of trace tr
StartCalls(tr) ==
    LET own == SelectSeq(tr, LAMBDA e :
                   e.cmd \in {"os.makedirs", "SB", "driver.get", "_get_debug_port",
                              "_get_websocket_url", "_apply_fingerprint_overrides",
                              "window.open", "store"})
    IN  [i \in 1..Len(own) |-> own[i].cmd]

\* the URLs opened, in the order of trace tr
Opened(tr) ==
    LET nav == SelectSeq(tr, LAMBDA e : e.cmd \in {"driver.get", "window.open"})
    IN  [i \in 1..Len(nav) |-> nav[i].arg[1]]

\* C14: a start that has stored its handle has gone through launch and
\* blank page, debug port, endpoint, injection, the start pages (the first
\* in the initial tab, the others in new tabs) and the store, in this order
\* and each once; until the store the profile is not running.
C14_StartOrder ==
    /\ step \notin {"idle", "running"} => ~is_running(profile.id)
    /\ is_running(profile.id) =>
          /\ StartCalls(trace) =
                <<"os.makedirs", "SB", "driver.get", "_get_debug_port",
                  "_get_websocket_url", "_apply_fingerprint_overrides">>
                \o [i \in 1..Len(start_pages) |->
                       IF i = 1 THEN "driver.get" ELSE "window.open"]
                \o <<"store">>
          /\ Opened(trace) = <<"about:blank">> \o start_pages

C14_Witness ==
    /\ step = "running"
    /\ start_result = "ok"
    /\ Len(start_pages) = 2
    /\ is_running(profile.id)

\* the seeds of the scripts installed in this session
Scripts(tr) == Calls(tr, "Page.addScriptToEvaluateOnNewDocument")

\* C15: a start draws the noise seed at most once, and once when the
\* injector gets to its script; the seed lies in 1..1000; the session has
\* at most one script and that script holds the seed drawn by this start;
\* clicks, typing and the start pages neither draw nor install a script;
\* every start begins without seed and without script.
C15_OneSeedPerSession ==
    /\ [](/\ draws <= 1
          /\ Len(Scripts(trace)) <= 1
          /\ step \in {"script", "timezone", "geolocation", "reconnect"}
                => draws = 1
          /\ noise_seed # None => draws = 1 /\ Val(noise_seed) \in 1..1000
          /\ Scripts(trace) # <<>>
                => draws = 1 /\ Scripts(trace)[1].arg[1] \in 1..1000)
    /\ [][/\ Scripts(trace') # Scripts(trace) /\ Scripts(trace') # <<>>
                => /\ step = "script"
                   /\ Scripts(trace')[1].arg = noise_seed
          /\ step \in {"pages", "running"} /\ step' \in {"pages", "running"}
                => draws' = draws /\ Scripts(trace') = Scripts(trace)
          /\ step' = "prepare"
                => draws' = 0 /\ noise_seed' = None /\ Scripts(trace') = <<>>]_vars

C15_Witness ==
    /\ sessions = 2
    /\ step = "running"
    /\ interactions = 1
    /\ Len(Calls(trace, "reconnect")) = 2
    /\ Scripts(trace) # <<>>
    /\ Scripts(trace)[1].arg[1] = 1000

\* C16: a start does not fail on a malformed screen_resolution: no start
\* ends in _build_chrome_options.
C16_MalformedResolutionProceeds ==
    \A i \in 1..Len(trace) :
        trace[i].cmd = "raise" => trace[i].arg # <<"_build_chrome_options">>

\* C17: the launch arguments are the window-size flag when a resolution is
\* set, the proxy-server flag with the proxy string when one is set, the
\* WebRTC flag when webrtc_mode is 'disabled', in this order and nothing
\* else, followed by the caller's flags in their order.
C17_LaunchArguments ==
    chrome_options # None =>
        LET o  == Val(chrome_options)
            nw == IF profile.screen_resolution # None THEN 1 ELSE 0
            nx == IF profile.proxy_string # None THEN 1 ELSE 0
            nr == IF profile.webrtc_mode = "disabled" THEN 1 ELSE 0
            n  == nw + nx + nr
        IN  /\ Len(o) = n + Len(chrome_flags)
            /\ nw = 1 => o[1] = <<"--window-size=", Val(profile.screen_resolution)[1],
                                  ",", Val(profile.screen_resolution)[2]>>
            /\ nx = 1 => o[nw + 1] = <<"--proxy-server=", Val(profile.proxy_string)>>
            /\ nr = 1 => o[nw + nx + 1] = <<"--disable-webrtc">>
            /\ SubSeq(o, n + 1, Len(o)) = chrome_flags

C17_Witness ==
    /\ chrome_options # None
    /\ Len(Val(chrome_options)) = 5
    /\ Len(chrome_flags) = 2
    /\ \E i \in 1..Len(trace) : trace[i].cmd = "SB" /\ trace[i].arg = Val(chrome_options)

\* the coordinates of the geolocation texts that are two numbers
TwoNumbers(g) ==
    CASE g = Some(<<"1", ",", "2">>) ->
            Some([latitude |-> [num |-> 1, scale |-> 0],
                  longitude |-> [num |-> 2, scale |-> 0], accuracy |-> 100])
      [] g = Some(<<"-", "1", ".", "5", ",", "2">>) ->
            Some([latitude |-> [num |-> -15, scale |-> 1],
                  longitude |-> [num |-> 2, scale |-> 0], accuracy |-> 100])
      [] OTHER -> None

\* C18: at the geolocation statement a text of two numbers makes the
\* injector grant the permission and then override the coordinates with
\* these two numbers and accuracy 100 (as far as the browser takes the
\* commands); any other text makes it send nothing; in every case the
\* injector goes on to the reconnect and the start to its end.
C18_Geolocation ==
    [][(step = "geolocation" /\ step' # step)
          => /\ step' = "reconnect"
             /\ start_result' = start_result
             /\ LET e     == TwoNumbers(profile.geolocation)
                    grant == Called("Browser.grantPermissions", <<"geolocation">>)
                IN  IF e = None
                    THEN trace' = trace
                    ELSE \/ trace' = trace
                         \/ trace' = Append(trace, grant)
                         \/ trace' = trace \o
                               <<grant, Called("Emulation.setGeolocationOverride",
                                               <<Val(e)>>)>>]_vars

C18_Witness ==
    /\ step = "running"
    /\ start_result = "ok"
    /\ profile.geolocation = Some(<<"-", "1", ".", "5", ",", "2">>)
    /\ Calls(trace, "Browser.grantPermissions") # <<>>
    /\ Calls(trace, "Emulation.setGeolocationOverride") # <<>>
    /\ Calls(trace, "reconnect") # <<>>

\* the handle of process slot i is in the registry
Registered(i) == \E k \in 1..Len(running_profiles) : running_profiles[k].sb = i

\* some call is at work on the session of process slot i
InUse(i) ==
    \E t \in Threads :
        sb[t] = Some(i) /\ pc[t] \in {"s_register", "c_activate", "c_dispatch", "p_close"}

\* C24: a registered session that no start, click, type or stop is working
\* on is in normal mode, whatever was raised by the injection or by the
\* click or type before.
C24_NormalModeAtRest ==
    \A i \in 1..MaxProcs :
        (Registered(i) /\ ~InUse(i) /\ procs[i].alive) => procs[i].mode = "normal"

\* a stop of profile id is between its registry lookup and its return
StopInProgress(id) ==
    \E u \in Threads : arg[u] = id /\ pc[u] \in {"p_close", "p_finally"}

\* C25: a click or type that has a handle in hand and a protocol command
\* still to send holds a handle that no stop has closed and returned from.
C25_NoUseAfterStop ==
    \A t \in Workers :
        (op[t] \in Cdp /\ pc[t] \in {"c_activate", "c_dispatch"})
            => \/ procs[Val(sb[t])].alive
               \/ StopInProgress(arg[t])

\* C26: no two stop calls are about to close the same handle: of two stops
\* for one profile id only one gets past the membership test.
C26_CloseOnce ==
    \A t, u \in Threads :
        (t # u /\ pc[t] = "p_close" /\ pc[u] = "p_close") => sb[t] # sb[u]

\* the protocol calls of _apply_fingerprint_overrides in the order of its
\* statements (lines 261, 270, 283, 369, 375, 383, 385, 393)
InjectOrder ==
    <<"activate_cdp_mode", "Network.setBlockedURLs", "Network.setUserAgentOverride",
      "Page.addScriptToEvaluateOnNewDocument", "Emulation.setTimezoneOverride",
      "Browser.grantPermissions", "Emulation.setGeolocationOverride", "reconnect">>

Rank(c) == CHOOSE i \in 1..Len(InjectOrder) : InjectOrder[i] = c

\* the calls the injector of this start has made: what the trace holds
\* between the endpoint resolution and the injector's return
InjectorCalls(tr) ==
    LET from == {i \in 1..Len(tr) : tr[i].cmd = "_get_websocket_url"}
        to   == {i \in 1..Len(tr) : tr[i].cmd = "_apply_fingerprint_overrides"}
        a    == IF from = {} THEN Len(tr) ELSE CHOOSE i \in from : TRUE
        b    == IF to = {} THEN Len(tr) + 1 ELSE CHOOSE i \in to : TRUE
    IN  SubSeq(tr, a + 1, b - 1)

\* the injector has returned without a raise
InjectorCompleted(tr) ==
    \E i \in 1..Len(tr) :
        tr[i].cmd = "_apply_fingerprint_overrides" /\ tr[i].arg = <<"ok">>

\* C23: the injector's calls come in the order of InjectOrder, each at most
\* once and the mode switch first; a failed ad-block leads on to the
\* user-agent step; an injector that completed has installed the script
\* exactly once, made the user-agent and timezone overrides the profile asks
\* for, and ended with the reconnect.
C23_InjectionOrder ==
    /\ [](LET s == InjectorCalls(trace)
          IN  /\ \A i \in 1..(Len(s) - 1) : Rank(s[i].cmd) < Rank(s[i + 1].cmd)
              /\ s # <<>> => s[1].cmd = "activate_cdp_mode"
              /\ InjectorCompleted(trace) =>
                    /\ s[Len(s)].cmd = "reconnect"
                    /\ Len(Scripts(s)) = 1
                    /\ (profile.user_agent # None) =
                           (Calls(s, "Network.setUserAgentOverride") # <<>>)
                    /\ (profile.timezone # None) =
                           (Calls(s, "Emulation.setTimezoneOverride") # <<>>))
    /\ [][step = "adblock" => step' = "user_agent"]_vars

\* an injector that completed although its ad-block command failed, with
\* every other override of the profile made
C23_Witness ==
    /\ InjectorCompleted(trace)
    /\ profile.adblock_enabled
    /\ Calls(trace, "Network.setBlockedURLs") = <<>>
    /\ Calls(trace, "Network.setUserAgentOverride") # <<>>
    /\ Calls(trace, "Emulation.setTimezoneOverride") # <<>>
    /\ Calls(trace, "Emulation.setGeolocationOverride") # <<>>

\* positions of the calls named c in a trace
At(tr, c) == {i \in 1..Len(tr) : tr[i].cmd = c}

\* the graceful close at position i of the trace raised
CloseRaised(tr, i) == tr[i].cmd = "__exit__" /\ tr[i].arg = <<"raised">>

\* C22: the process lookup and terminate of the forced kill come only
\* after a graceful close that raised, and only with a recorded pid; a
\* close that returned is followed by the removal at once; whichever way
\* the close went, the entry is removed.
C22_ForcedOnlyAfterRaise ==
    /\ \A i \in At(trace, "psutil.Process") \cup At(trace, "terminate") :
           /\ \E j \in 1..(i - 1) : CloseRaised(trace, j)
           /\ Val(resolved).pid # None
           /\ trace[i].arg = Val(resolved).pid
    /\ \A i \in At(trace, "__exit__") :
           /\ ~CloseRaised(trace, i) => trace[i + 1].cmd = "del"
           /\ (CloseRaised(trace, i) /\ Val(resolved).pid = None)
                  => trace[i + 1].cmd = "del"
           /\ At(trace, "del") # {}
           /\ ~Has(running_profiles, profile.id)

\* a close that raised on a handle without a pid: removed, nothing killed
C22_Witness ==
    /\ \E i \in At(trace, "__exit__") : CloseRaised(trace, i)
    /\ Val(resolved).pid = None
    /\ At(trace, "terminate") = {}
    /\ ~Has(running_profiles, profile.id)
    /\ step = "idle"

\* the metadata query failed: no reply in time, no connection, no JSON
FailedReplies == {"timeout", "refused", "malformed"}

\* C27: the port is the launcher's when the driver has one, else the one
\* after the colon of a debugger address that holds a number there, else
\* 9222; the resolution is always followed by the injector; when the
\* metadata query failed the address is the one synthesized from the port.
C27_ResolutionNeverFatal ==
    /\ [](resolved # None =>
            LET r == Val(resolved)
                d == r.driver
            IN  /\ r.debug_port =
                      IF d.service_port # None THEN 9515
                      ELSE IF d.caps_ok /\ d.debuggerAddress = <<Localhost, <<"9", "3", "3", "3">> >>
                      THEN 9333
                      ELSE 9222
                /\ r.reply \in FailedReplies =>
                      r.websocket_url = <<"ws://127.0.0.1:", r.debug_port, "/devtools/browser">>)
    /\ [][step = "resolve" => step' = "activate" /\ resolved' # None]_vars

\* a session stored with the default port and the synthesized address,
\* the capabilities having raised and the metadata query timed out
C27_Witness ==
    /\ step = "running"
    /\ ~Val(resolved).driver.caps_ok
    /\ Val(resolved).reply = "timeout"
    /\ Get(running_profiles, profile.id).debug_port = DefaultDebugPort
    /\ Get(running_profiles, profile.id).websocket_url =
           <<"ws://127.0.0.1:", DefaultDebugPort, "/devtools/browser">>

\* C21: a stop that has fetched the handle of profile id leaves
\* stop_profile with the entry of id removed; a start that is launching
\* leaves the launch, and when it goes on to register, it has an endpoint
\* address.
C21_StopTerminates ==
    /\ \A t \in {Pool[1], Main}, id \in Profiles :
           (pc[t] = "p_close" /\ arg[t] = id)
               ~> (pc[t] \notin {"p_close", "p_finally"} /\ ~is_running(id))
    /\ (pc[Pool[1]] = "s_launch")
           ~> (/\ pc[Pool[1]] # "s_launch"
               /\ pc[Pool[1]] = "s_register" => websocket_url[Pool[1]] # None)

\* a stop has returned after a forced kill that failed, while a session
\* whose endpoint query failed is registered with the synthesized address
C21_Witness ==
    /\ op[Pool[1]] = "stop_profile"
    /\ pc[Pool[1]] = "done"
    /\ result[Pool[1]] = "ok"
    /\ path[Pool[1]] = "forced_failed"
    /\ \E k \in 1..Len(running_profiles) :
           running_profiles[k].websocket_url =
               <<"ws://127.0.0.1:", running_profiles[k].debug_port, "/devtools/browser">>

\* no endpoint is being served
NoRequestInFlight == \A t \in Workers : pc[t] = "idle"

\* C28: with no request in flight, a profile whose row says 'running' has
\* an entry in the registry.
C28_RunningHasEntry ==
    NoRequestInFlight =>
        \A id \in Profiles : status[id] = "running" => is_running(id)

\* a browser of profile id is alive, its handle in the registry or in the
\* hands of a call that is at work (the browser a failed start leaves
\* behind is C4's)
Live(id) ==
    \E i \in 1..MaxProcs :
        /\ procs[i].alive
        /\ procs[i].profile = id
        /\ Registered(i) \/ \E t \in Workers : sb[t] = Some(i) /\ pc[t] # "done"

\* C29: once the delete endpoint has answered success for a profile, the
\* registry has no entry for it and no browser of it is alive.
C29_DeletedIsGone ==
    \A t \in Workers :
        (pc[t] = "e_responded" /\ endpoint[t] = "delete" /\ response[t] = "success")
            => ~is_running(arg[t]) /\ ~Live(arg[t])

\* C30: inside the click and type endpoints, a manager call whose registry
\* lookup is its last step, no click or type having been dispatched, does
\* not end as a normal return, which the endpoint answers with success.
C30_SuccessMeansDispatched ==
    [][\A t \in Workers :
          (endpoint[t] \in {"click", "type"} /\ pc[t] = "c_lookup" /\ pc'[t] = "done")
              => result'[t] # "ok"]_vars

====
